---- MODULE Spec2Model ----
(***************************************************************************)
(* Model of svg_batch_exporter.py: the command-line front end (__main__),  *)
(* export_svg (precondition checks, rule loading, per-file parameter       *)
(* resolution) and _convert_via_inkscape (format routing, renderer         *)
(* command, relay transcode with its temporary PNG).                       *)
(*                                                                         *)
(* Python values: a string that the code inspects character by character   *)
(* (lower(), split(",")) is a tuple of one-character strings; paths, stems *)
(* and command tokens are TLA+ strings joined with \o.  A size value is a  *)
(* tagged record (None, a str, or a list of ints / of strs).  A dict is a  *)
(* function whose DOMAIN is its key set.                                   *)
(***************************************************************************)
EXTENDS Integers, Sequences, FiniteSets, TLC

\* -------------------------------------------------------------- bounds
\* Longest directory listing of .svg files.
MaxFiles == 2
\* Most per-file keys in the rules document (besides _globalrule_).
MaxRules == 1

\* ------------------------------------------------------ Python helpers
py_png == <<"p", "n", "g">>
py_pdf == <<"p", "d", "f">>
py_ps == <<"p", "s">>
py_eps == <<"e", "p", "s">>
py_jpeg == <<"j", "p", "e", "g">>
py_jpg == <<"j", "p", "g">>
py_bmp == <<"b", "m", "p">>
py_gif == <<"g", "i", "f">>
py_im == <<"i", "m">>
py_pcx == <<"p", "c", "x">>
py_tiff == <<"t", "i", "f", "f">>

INKSCAPE_FORMATS == <<py_png, py_pdf, py_ps, py_eps>>
PIL_FORMATS == <<py_jpeg, py_jpg, py_bmp, py_gif, py_im, py_pcx, py_tiff>>

UpperCase ==
  <<"A", "B", "C", "D", "E", "F", "G", "H", "I", "J", "K", "L", "M",
    "N", "O", "P", "Q", "R", "S", "T", "U", "V", "W", "X", "Y", "Z">>
LowerCase ==
  <<"a", "b", "c", "d", "e", "f", "g", "h", "i", "j", "k", "l", "m",
    "n", "o", "p", "q", "r", "s", "t", "u", "v", "w", "x", "y", "z">>

\* str.lower() on one character, then on a string.
lower_char(c) ==
  IF \E i \in DOMAIN UpperCase : UpperCase[i] = c
  THEN LowerCase[CHOOSE i \in DOMAIN UpperCase : UpperCase[i] = c]
  ELSE c
lower(s) == [i \in DOMAIN s |-> lower_char(s[i])]

\* "".join(chars): a character tuple as one string.
RECURSIVE Join(_)
Join(s) == IF s = <<>> THEN "" ELSE Head(s) \o Join(Tail(s))

\* str.split(","): the comma-separated pieces of a character tuple.
RECURSIVE split_from(_, _, _)
split_from(s, piece, acc) ==
  IF s = <<>> THEN Append(acc, piece)
  ELSE IF Head(s) = "," THEN split_from(Tail(s), "", Append(acc, piece))
  ELSE split_from(Tail(s), piece \o Head(s), acc)
split(s) == split_from(s, "", <<>>)

\* str(n) for n >= 0.
Digits == <<"0", "1", "2", "3", "4", "5", "6", "7", "8", "9">>
RECURSIVE str_int(_)
str_int(n) ==
  IF n < 10 THEN Digits[n + 1] ELSE str_int(n \div 10) \o Digits[(n % 10) + 1]

PyNone == [t |-> "None"]
PyStr(s) == [t |-> "str", s |-> s]
PyIntList(v) == [t |-> "list", of |-> "int", v |-> v]
PyStrList(v) == [t |-> "list", of |-> "str", v |-> v]
SizeDefault == PyStr("default")

\* Python truthiness of a size value (`if size:`).
truthy(size) ==
  CASE size.t = "None" -> FALSE
    [] size.t = "str" -> size.s # ""
    [] size.t = "list" -> Len(size.v) > 0

\* str(size[i]) with Python's 0-based index i.
str_item(size, i) ==
  IF size.of = "int" THEN str_int(size.v[i + 1]) ELSE size.v[i + 1]

EmptyDict == [k \in {} |-> TRUE]
os_sep == "/"
gettempdir == "/tmp"
GLOBALRULE == "_globalrule_"

\* --------------------------------------------------- format classifier
\* _is_inkscape_format / _is_pillow_format: case-insensitive membership.
_is_inkscape_format(in_form) ==
  \E i \in DOMAIN INKSCAPE_FORMATS : lower(in_form) = lower(INKSCAPE_FORMATS[i])
_is_pillow_format(in_form) ==
  \E i \in DOMAIN PIL_FORMATS : lower(in_form) = lower(PIL_FORMATS[i])

\* The branch _convert_via_inkscape takes (if / elif / else, lines 281-315).
convert_branch(file_format) ==
  IF _is_inkscape_format(file_format) THEN "native"
  ELSE IF _is_pillow_format(file_format) THEN "relay"
  ELSE "unsupported"

\* ---------------------------------------------------- renderer command
\* Lines 276-280: the command prefix with the crop-mode flag.
base_cmd(inkscape_path, src_svg_path, drawing_only) ==
  <<inkscape_path, "-f", src_svg_path>>
    \o (IF drawing_only THEN <<"--export-area-drawing">>
        ELSE <<"--export-area-page">>)

\* Lines 284-285 and 299-300: `if size:` appends -w and -h.
size_flags(size) ==
  IF truthy(size)
  THEN <<"-w", str_item(size, 0), "-h", str_item(size, 1)>>
  ELSE <<>>

\* Lines 282-291: the export flag of the native branch, chosen by comparing
\* file_format itself (not its lower-case form) with each native name.
native_export_flag(file_format, out_img_path) ==
  IF file_format = py_png THEN <<"--export-png=" \o out_img_path>>
  ELSE IF file_format = py_pdf THEN <<"--export-pdf=" \o out_img_path>>
  ELSE IF file_format = py_ps THEN <<"--export-ps=" \o out_img_path>>
  ELSE IF file_format = py_eps THEN <<"--export-eps=" \o out_img_path>>
  ELSE <<>>

\* Lines 282-285: only the png arm of the native branch looks at size.
native_size_flags(file_format, size) ==
  IF file_format = py_png THEN size_flags(size) ELSE <<>>

native_cmd(inkscape_path, src_svg_path, out_img_path, file_format, size, drawing_only) ==
  base_cmd(inkscape_path, src_svg_path, drawing_only)
    \o native_export_flag(file_format, out_img_path)
    \o native_size_flags(file_format, size)

\* Line 297: the fixed temporary PNG.
tempf_path == gettempdir \o os_sep \o "mJaAjM.png"

\* Lines 298-300.
relay_cmd(inkscape_path, src_svg_path, size, drawing_only) ==
  base_cmd(inkscape_path, src_svg_path, drawing_only)
    \o <<"--export-png=" \o tempf_path>>
    \o size_flags(size)

\* --------------------------------------------------- parameter resolver
params == <<"size", "format", "drawing_only">>

\* Lines 341-345.
def_param == [size |-> PyNone, format |-> py_png, drawing_only |-> TRUE]

\* curated_param as it would be if "default" meant a missing key.
curated_param_drops_key(data) ==
  IF "size" \in DOMAIN data /\ data["size"] = SizeDefault
  THEN [k \in DOMAIN data \ {"size"} |-> data[k]]
  ELSE data

\* Lines 348-352: the block with a "default" size replaced by None.  The
\* code assigns into the dict it was given; the callers below store the
\* result back into rule_data.
curated_param(data) ==
  IF "size" \in DOMAIN data /\ data["size"] = SizeDefault
  THEN [data EXCEPT !["size"] = PyNone]
  ELSE data

\* Lines 362-367: the supplied block holds the arguments that are not None.
supplied_of(file_format, size, drawing_only) ==
  LET keys == (IF size # PyNone THEN {"size"} ELSE {})
                \cup (IF file_format # PyNone THEN {"format"} ELSE {})
                \cup (IF drawing_only # PyNone THEN {"drawing_only"} ELSE {})
  IN [k \in keys |-> CASE k = "size" -> size
                       [] k = "format" -> file_format.s
                       [] k = "drawing_only" -> drawing_only.b]

\* The loop of lines 376-380 without its break: the last block that has the
\* key wins.
resolve_without_break(param_blocks) ==
  LET last_block(p) == CHOOSE i \in DOMAIN param_blocks :
                         /\ p \in DOMAIN param_blocks[i]
                         /\ \A j \in (i + 1)..Len(param_blocks) :
                              p \notin DOMAIN param_blocks[j]
      found == {params[n] : n \in {m \in DOMAIN params :
                  \E i \in DOMAIN param_blocks : params[m] \in DOMAIN param_blocks[i]}}
  IN [p \in found |-> param_blocks[last_block(p)][p]]

\* Lines 376-380: for each param the first block that has the key.
first_block(param, param_blocks) ==
  CHOOSE i \in DOMAIN param_blocks :
    /\ param \in DOMAIN param_blocks[i]
    /\ \A j \in 1..(i - 1) : param \notin DOMAIN param_blocks[j]
resolve(param_blocks) ==
  LET found == {params[n] : n \in {m \in DOMAIN params :
                  \E i \in DOMAIN param_blocks : params[m] \in DOMAIN param_blocks[i]}}
  IN [p \in found |-> param_blocks[first_block(p, param_blocks)][p]]


\* ------------------------------------------------------------- inputs
\* Stems of the .svg files the source directory may hold, and the listings
\* os.listdir may yield (any order, no repeats).
Stems == {"mJaAjM", "ink", "gauge"}
Listings ==
  {l \in UNION {[1..n -> Stems] : n \in 0..MaxFiles} :
     \A i, j \in DOMAIN l : i # j => l[i] # l[j]}

SRC_DIR == "/src"
OutDirs == {"/out", gettempdir}
INKSCAPE_BIN == "/usr/bin/inkscape"

py_PNG == <<"P", "N", "G">>
py_xyz == <<"x", "y", "z">>

\* An optional value is the empty set or a singleton.
Opt(S) == {{}} \cup {{v} : v \in S}
The(o) == CHOOSE v \in o : TRUE
MkBlock(so, fo, do) ==
  [k \in (IF so # {} THEN {"size"} ELSE {})
           \cup (IF fo # {} THEN {"format"} ELSE {})
           \cup (IF do # {} THEN {"drawing_only"} ELSE {})
     |-> CASE k = "size" -> The(so)
           [] k = "format" -> The(fo)
           [] k = "drawing_only" -> The(do)]
Blocks(S, F, D) == {MkBlock(so, fo, do) : so \in Opt(S), fo \in Opt(F), do \in Opt(D)}

\* Blocks a rules file may hold for one file and for _globalrule_.
PerFileBlocks ==
  Blocks({SizeDefault, PyIntList(<<100, 100>>)}, {py_PNG, py_xyz}, {FALSE})
GlobalBlocks ==
  Blocks({SizeDefault, PyIntList(<<300, 300>>)}, {py_pdf}, {FALSE})
FormatBlocks == Blocks({}, {py_PNG, py_jpg, py_xyz}, {}) \ {EmptyDict}

Merge(a, b) == [k \in DOMAIN a \cup DOMAIN b |-> IF k \in DOMAIN a THEN a[k] ELSE b[k]]

\* What the source directory and the rules file hold, drawn together: a
\* single-file batch with every combination of a _globalrule_ block and a
\* block for that file, or a batch of any length with a rules file that
\* only sets formats, for at most MaxRules stems (listed or not).
SingleFile ==
  LET GDocs == {EmptyDict} \cup {[k \in {GLOBALRULE} |-> b] : b \in GlobalBlocks}
  IN UNION {{[listing |-> <<stem>>, doc |-> Merge(g, d)] :
               g \in GDocs,
               d \in {EmptyDict} \cup {[k \in {stem} |-> b] : b \in PerFileBlocks}} :
            stem \in Stems}
Batches ==
  LET PDocs == UNION {[K -> FormatBlocks] :
                        K \in {K \in SUBSET Stems : Cardinality(K) <= MaxRules}}
  IN {[listing |-> l, doc |-> d] : l \in Listings, d \in PDocs}
Scenarios == SingleFile \cup Batches

\* Command-line tokens (argparse leaves a flag that was not given at None).
Tok(chars) == [t |-> "str", s |-> chars]
PyBool(b) == [t |-> "bool", b |-> b]
ArgSizes ==
  {PyNone, Tok(<<"4", "0", "0", ",", "4", "0", "0">>), Tok(<<"1", ",", "2", ",", "3">>)}
ArgFormats == {PyNone, Tok(py_bmp)}
ArgDrawingOnly == {PyNone, Tok(<<"N">>), Tok(<<"m", "a", "y", "b", "e">>)}

\* Arguments of a direct call of export_svg (as the tests make).
CallSizes == {PyNone, PyIntList(<<400, 400>>)}
CallFormats == {PyNone, Tok(py_bmp)}
CallDrawingOnly == {PyNone}

NoArgs == [t |-> "None"]
NoCall == [t |-> "None"]

\* -------------------------------------------------------------- state
VARIABLES
  pc,              \* where the process is
  args,            \* the parsed command line, NoArgs for a direct call
  call,            \* export_svg's arguments
  rule_data,       \* the loaded rules document (dict of dicts)
  loaded,          \* history: rule_data as json.load returned it
  supplied_param,  \* the supplied block
  svg_files,       \* the directory listing
  idx,             \* 1-based position of the for loop in svg_files
  final_param,     \* the resolved settings of the current file
  files,           \* paths that exist in the output and temporary directories
  cmds,            \* renderer commands run so far
  report,          \* lines printed so far
  exit_status,     \* -1 while running, then the process exit status
  fatal,           \* why the process ended early, "none" otherwise
  out_paths,       \* history: the out_img_path of each conversion started
  cleaned          \* history: os.remove(tempf_path) ran in the last relay conversion

vars == <<pc, args, call, rule_data, loaded, supplied_param, svg_files, idx,
          final_param, files, cmds, report, exit_status, fatal, out_paths, cleaned>>

Init ==
  /\ pc = "start"
  /\ args = NoArgs
  /\ call = NoCall
  /\ rule_data = EmptyDict
  /\ loaded = EmptyDict
  /\ supplied_param = EmptyDict
  /\ svg_files = <<>>
  /\ idx = 0
  /\ final_param = EmptyDict
  /\ files = {}
  /\ cmds = <<>>
  /\ report = <<>>
  /\ exit_status = -1
  /\ fatal = "none"
  /\ out_paths = <<>>
  /\ cleaned = FALSE

\* sys.exit(status) after print(message).
Exit(status, why, message) ==
  /\ pc' = "exited"
  /\ exit_status' = status
  /\ fatal' = why
  /\ report' = Append(report, message)

\* _report_error: print(error_desc); sys.exit(1).
_report_error(why, error_desc) == Exit(1, why, error_desc)

\* An exception nobody catches: traceback, exit status 1.
Uncaught(why) ==
  /\ pc' = "crashed"
  /\ exit_status' = 1
  /\ fatal' = why
  /\ UNCHANGED report

\* ------------------------------------------------------------ __main__
\* Lines 394-403: the value of f_drawing_only, or "bad" for a wrong token.
main_drawing_only(tok) ==
  IF tok # PyNone /\ Len(tok.s) > 0
  THEN LET draw == lower(tok.s)
       IN IF draw = <<"y">> \/ draw = <<"y", "e", "s">> THEN PyBool(TRUE)
          ELSE IF draw = <<"n">> \/ draw = <<"n", "o">> THEN PyBool(FALSE)
          ELSE PyStr("bad")
  ELSE PyBool(TRUE)

\* Lines 404-409: image_size, or "bad" for a token without exactly two pieces.
main_image_size(tok) ==
  IF tok # PyNone /\ Len(tok.s) > 0
  THEN LET image_size == split(tok.s)
       IN IF Len(image_size) # 2 THEN PyStr("bad") ELSE PyStrList(image_size)
  ELSE PyNone

\* The exit status of sys.exit() called without an argument (lines 403, 409).
main_exit_status == 0

MkCall(rules, file_format, size, drawing_only, out_dir) ==
  [json_rules_file |-> rules, file_format |-> file_format, size |-> size,
   drawing_only |-> drawing_only, inkscape_path |-> "default",
   src_dir |-> SRC_DIR, out_dir |-> out_dir]

\* The script run from the command line (lines 389-415).
Main ==
  /\ pc = "start"
  /\ \E a_size \in ArgSizes, a_format \in ArgFormats, a_draw \in ArgDrawingOnly,
        a_rules \in BOOLEAN, a_outdir \in OutDirs :
       LET f_drawing_only == main_drawing_only(a_draw)
           image_size == main_image_size(a_size)
       IN /\ args' = [size |-> a_size, format |-> a_format, drawing_only |-> a_draw,
                      rules |-> a_rules, outdir |-> a_outdir]
          /\ IF f_drawing_only = PyStr("bad")
             THEN /\ Exit(main_exit_status, "bad_drawing_only",
                          "Wrong argument supplied for --drawing_only parameter!")
                  /\ UNCHANGED call
             ELSE IF image_size = PyStr("bad")
             THEN /\ Exit(main_exit_status, "bad_size",
                          "Wrong argument supplied for --size parameter!")
                  /\ UNCHANGED call
             ELSE /\ call' = MkCall(a_rules, a_format, image_size, f_drawing_only, a_outdir)
                  /\ pc' = "export"
                  /\ UNCHANGED <<exit_status, fatal, report>>
  /\ UNCHANGED <<rule_data, loaded, supplied_param, svg_files, idx, final_param,
                 files, cmds, out_paths, cleaned>>

\* export_svg called directly, as the tests do (test_exporter.py lines 32-65).
DirectCall ==
  /\ pc = "start"
  /\ \E c_size \in CallSizes, c_format \in CallFormats, c_draw \in CallDrawingOnly,
        c_rules \in BOOLEAN, c_outdir \in OutDirs :
       call' = MkCall(c_rules, c_format, c_size, c_draw, c_outdir)
  /\ pc' = "export"
  /\ UNCHANGED <<args, rule_data, loaded, supplied_param, svg_files, idx, final_param,
                 files, cmds, report, exit_status, fatal, out_paths, cleaned>>

\* ---------------------------------------------------------- export_svg
\* The _globalrule_ block of a rules document: global_param is the very
\* dict stored in rule_data (line 359), {} when there is none (line 339).
global_of(rd) == IF GLOBALRULE \in DOMAIN rd THEN rd[GLOBALRULE] ELSE EmptyDict
global_param == global_of(rule_data)

\* One of the checks of lines 331-355 fails: _report_error ends the process.
\* The checks run in this order; the renderer is looked up (and its path
\* printed) before the listing is read and the rules file is parsed.
SetupFails ==
  /\ pc = "export"
  /\ \E why \in {"src_dir", "out_dir", "rules_path", "no_inkscape", "no_svg", "rules_json"} :
       /\ why \in {"rules_path", "rules_json"} => call.json_rules_file
       /\ CASE why = "src_dir" ->
                 _report_error(why, call.src_dir \o " is not a valid directory!")
            [] why = "out_dir" ->
                 _report_error(why, call.out_dir \o " is not a valid directory!")
            [] why = "rules_path" ->
                 _report_error(why, "rules.json is not a valid file path!")
            [] why = "no_inkscape" ->
                 _report_error(why, "No Inkscape installation found!")
            [] why = "no_svg" ->
                 /\ pc' = "exited"
                 /\ exit_status' = 1
                 /\ fatal' = why
                 /\ report' = report \o <<"Inkscape installation found ... " \o INKSCAPE_BIN,
                                         "No SVG file found in " \o call.src_dir>>
            [] why = "rules_json" ->
                 \E l \in Listings :
                   /\ Len(l) > 0
                   /\ pc' = "exited"
                   /\ exit_status' = 1
                   /\ fatal' = why
                   /\ report' = report \o <<"Inkscape installation found ... " \o INKSCAPE_BIN,
                                           str_int(Len(l)) \o " SVG files found",
                                           "rules.json is not a valid JSON file format!">>
  /\ UNCHANGED <<args, call, rule_data, loaded, supplied_param, svg_files, idx,
                 final_param, files, cmds, out_paths, cleaned>>

\* Lines 331-367 when every check passes: the listing, the rules document
\* (rule_data stays [] without a rules file), the curated global block and
\* the supplied block.
Setup ==
  /\ pc = "export"
  /\ \E sc \in Scenarios :
       /\ Len(sc.listing) > 0
       /\ ~call.json_rules_file => sc.doc = EmptyDict
       /\ svg_files' = sc.listing
       /\ loaded' = sc.doc
       /\ rule_data' = IF GLOBALRULE \in DOMAIN sc.doc
                       THEN [sc.doc EXCEPT ![GLOBALRULE] = curated_param(@)]
                       ELSE sc.doc
       /\ report' = report \o <<"Inkscape installation found ... " \o INKSCAPE_BIN,
                               str_int(Len(sc.listing)) \o " SVG files found">>
  /\ supplied_param' = supplied_of(call.file_format, call.size, call.drawing_only)
  /\ idx' = 1
  /\ pc' = "loop"
  /\ UNCHANGED <<args, call, final_param, files, cmds, exit_status, fatal,
                 out_paths, cleaned>>

svg_file == svg_files[idx]
inkscape_path == INKSCAPE_BIN

\* Lines 381-383: the two paths handed to _convert_via_inkscape.
src_svg_path_of(stem) == call.src_dir \o os_sep \o stem \o ".svg"
out_img_path_of(stem, format) == call.out_dir \o os_sep \o stem \o "." \o Join(format)

\* Lines 369-380: one turn of the loop up to the call of the converter.
\* curated_param writes into the very block stored in rule_data.
Resolve ==
  /\ pc = "loop"
  /\ idx <= Len(svg_files)
  /\ rule_data' = IF svg_file \in DOMAIN rule_data
                  THEN [rule_data EXCEPT ![svg_file] = curated_param(@)]
                  ELSE rule_data
  /\ LET local_param == IF svg_file \in DOMAIN rule_data
                        THEN rule_data'[svg_file] ELSE EmptyDict
         param_blocks == <<local_param, supplied_param, global_of(rule_data'), def_param>>
     IN /\ final_param' = resolve(param_blocks)
        /\ out_paths' = Append(out_paths,
                               out_img_path_of(svg_file, final_param'["format"]))
  /\ cleaned' = FALSE
  /\ pc' = "convert"
  /\ UNCHANGED <<args, call, loaded, supplied_param, svg_files, idx, files, cmds,
                 report, exit_status, fatal>>

src_svg_path == src_svg_path_of(svg_file)
out_img_path == out_img_path_of(svg_file, final_param["format"])

\* ------------------------------------------------ _convert_via_inkscape
\* Lines 281-292: the native branch.  _run_command ignores the renderer's
\* exit status, so the renderer may or may not have written its target; it
\* has a target only when the command names one.
ConvertNative ==
  /\ pc = "convert"
  /\ convert_branch(final_param["format"]) = "native"
  /\ cmds' = Append(cmds, native_cmd(inkscape_path, src_svg_path, out_img_path,
                                     final_param["format"], final_param["size"],
                                     final_param["drawing_only"]))
  /\ \E written \in BOOLEAN :
       files' = IF written /\ native_export_flag(final_param["format"], out_img_path) # <<>>
                THEN files \cup {out_img_path} ELSE files
  /\ pc' = "saved"
  /\ UNCHANGED <<args, call, rule_data, loaded, supplied_param, svg_files, idx,
                 final_param, report, exit_status, fatal, out_paths, cleaned>>

\* Lines 293-301: the relay branch up to the return of the renderer.
ConvertRelayRender ==
  /\ pc = "convert"
  /\ convert_branch(final_param["format"]) = "relay"
  /\ cmds' = Append(cmds, relay_cmd(inkscape_path, src_svg_path, final_param["size"],
                                    final_param["drawing_only"]))
  /\ \E written \in BOOLEAN :
       files' = IF written THEN files \cup {tempf_path} ELSE files
  /\ pc' = "relay"
  /\ UNCHANGED <<args, call, rule_data, loaded, supplied_param, svg_files, idx,
                 final_param, report, exit_status, fatal, out_paths, cleaned>>

\* The removal as it would run at the end of the try block instead.
removal_only_after_save(outcome) == outcome = "ok"

\* Line 312, reached through `finally`: whether os.remove(tempf_path) runs
\* when the try block ends the way `outcome` says.
removal_runs(outcome) == TRUE

\* Lines 302-312: try / except ImportError / finally.  The import may fail;
\* open fails when the temporary PNG is not there, and open or save may fail
\* otherwise; whichever way the try block ends, `finally` removes the
\* temporary PNG (os.remove itself raises when there is nothing to remove).
ConvertRelayTranscode ==
  /\ pc = "relay"
  /\ \E outcome \in {"import_error", "io_error", "ok"} :
       /\ outcome = "ok" => tempf_path \in files
       /\ LET after_try == IF outcome = "ok" THEN files \cup {out_img_path} ELSE files
          IN /\ files' = IF removal_runs(outcome) THEN after_try \ {tempf_path}
                         ELSE after_try
             /\ cleaned' = removal_runs(outcome)
             /\ CASE outcome = "import_error" ->
                       IF removal_runs(outcome) /\ tempf_path \notin after_try
                       THEN Uncaught("relay_io")
                       ELSE _report_error("pillow_missing",
                                          "Python3 Pillow library not found!")
                  [] outcome = "io_error" -> Uncaught("relay_io")
                  [] outcome = "ok" ->
                       /\ pc' = "saved"
                       /\ UNCHANGED <<report, exit_status, fatal>>
  /\ UNCHANGED <<args, call, rule_data, loaded, supplied_param, svg_files, idx,
                 final_param, cmds, out_paths>>

\* Lines 313-315: neither list has the format.
ConvertUnsupported ==
  /\ pc = "convert"
  /\ convert_branch(final_param["format"]) = "unsupported"
  /\ _report_error("unsupported",
                   "Unsupported file format to export: " \o Join(final_param["format"]))
  /\ UNCHANGED <<args, call, rule_data, loaded, supplied_param, svg_files, idx,
                 final_param, files, cmds, out_paths, cleaned>>

\* Line 386 and the step to the next file.
ReportSaved ==
  /\ pc = "saved"
  /\ report' = Append(report, "Saved " \o svg_file \o "." \o Join(final_param["format"]))
  /\ idx' = idx + 1
  /\ pc' = "loop"
  /\ UNCHANGED <<args, call, rule_data, loaded, supplied_param, svg_files,
                 final_param, files, cmds, exit_status, fatal, out_paths, cleaned>>

\* Done as it would be with the loop ending one file early.
Done_one_file_early ==
  /\ pc = "loop"
  /\ idx >= Len(svg_files)
  /\ report' = Append(report, "Done")
  /\ exit_status' = 0
  /\ pc' = "done"
  /\ UNCHANGED <<args, call, rule_data, loaded, supplied_param, svg_files, idx,
                 final_param, files, cmds, fatal, out_paths, cleaned>>

\* Line 387: the loop is over; the process ends with status 0.
Done ==
  /\ pc = "loop"
  /\ idx > Len(svg_files)
  /\ report' = Append(report, "Done")
  /\ exit_status' = 0
  /\ pc' = "done"
  /\ UNCHANGED <<args, call, rule_data, loaded, supplied_param, svg_files, idx,
                 final_param, files, cmds, fatal, out_paths, cleaned>>

\* ============================================================== claims
converting == pc \in {"convert", "relay", "saved"}
raw_local == IF svg_file \in DOMAIN loaded THEN loaded[svg_file] ELSE EmptyDict
raw_global == global_of(loaded)
AllParams == {"size", "format", "drawing_only"}

\* The value a block of the rules file gives a field: a size of "default"
\* stands for None.
LayerValue(block, p) ==
  IF p = "size" /\ block[p] = SizeDefault THEN PyNone ELSE block[p]
Expected(p) ==
  IF p \in DOMAIN raw_local THEN LayerValue(raw_local, p)
  ELSE IF p \in DOMAIN supplied_param THEN supplied_param[p]
  ELSE IF p \in DOMAIN raw_global THEN LayerValue(raw_global, p)
  ELSE def_param[p]

\* C1: whatever the four layers define, the settings handed to the converter
\* have size, format and drawing_only, each taken from the highest layer
\* that has the key, in the order per-file > supplied > global > default.
C1_Precedence ==
  converting =>
    /\ DOMAIN final_param = AllParams
    /\ \A p \in AllParams : final_param[p] = Expected(p)

\* C1 witness: the three fields come from three different layers while a
\* lower layer also defines the size.
C1_Witness ==
  /\ pc = "convert"
  /\ "format" \in DOMAIN raw_local /\ "size" \notin DOMAIN raw_local
  /\ "drawing_only" \notin DOMAIN raw_local
  /\ DOMAIN supplied_param = {"size"}
  /\ {"size", "drawing_only"} \subseteq DOMAIN raw_global
  /\ final_param = [format |-> raw_local["format"], size |-> supplied_param["size"],
                    drawing_only |-> raw_global["drawing_only"]]

DropSize(block) == [k \in DOMAIN block \ {"size"} |-> block[k]]
HasDefaultSize(block) == "size" \in DOMAIN block /\ block["size"] = SizeDefault

\* C2 as stated: a block whose size is "default" resolves to the very record
\* the same block without a size key resolves to, whatever the other layers
\* hold.
C2_Original ==
  converting =>
    /\ HasDefaultSize(raw_local) =>
         final_param = resolve(<<DropSize(raw_local), supplied_param,
                                 curated_param(raw_global), def_param>>)
    /\ HasDefaultSize(raw_global) =>
         final_param = resolve(<<curated_param(raw_local), supplied_param,
                                 DropSize(raw_global), def_param>>)

\* C2 amended: a per-file block whose size is "default" resolves to the
\* record of the same block without a size key, except that the size is
\* None (the sizes of the supplied and global blocks are overridden); a
\* _globalrule_ block whose size is "default" resolves to exactly the record
\* of the same block without a size key.
C2_DefaultSize ==
  converting =>
    /\ HasDefaultSize(raw_local) =>
         final_param = [resolve(<<DropSize(raw_local), supplied_param,
                                  curated_param(raw_global), def_param>>)
                          EXCEPT !["size"] = PyNone]
    /\ HasDefaultSize(raw_global) =>
         final_param = resolve(<<curated_param(raw_local), supplied_param,
                                 DropSize(raw_global), def_param>>)

\* C2 witness: a per-file "default" size above a supplied size.
C2_Witness ==
  /\ pc = "convert"
  /\ HasDefaultSize(raw_local)
  /\ "size" \in DOMAIN supplied_param
  /\ final_param["size"] = PyNone

last_cmd == cmds[Len(cmds)]

\* C3 as stated: every format is native, relay or unsupported, a format and
\* its lower-case spelling take the same branch, and on the native branch
\* the command is the one built for the lower-case spelling (the same export
\* flag for the same output path).
C3_CaseInsensitive ==
  pc \in {"relay", "saved"} =>
    LET f == final_param["format"]
    IN /\ convert_branch(f) \in {"native", "relay", "unsupported"}
       /\ convert_branch(f) = convert_branch(lower(f))
       /\ convert_branch(f) = "native" =>
            last_cmd = native_cmd(inkscape_path, src_svg_path, out_img_path, lower(f),
                                  final_param["size"], final_param["drawing_only"])

ConversionErrors == {"unsupported", "pillow_missing", "relay_io"}

\* C4 as stated: when a conversion error ends a file's conversion, every
\* other file of the listing is still attempted, so the process does not end
\* on a conversion error before the last file.
C4_BatchIsolation ==
  (pc \in {"exited", "crashed"} /\ fatal \in ConversionErrors) =>
    Len(out_paths) = Len(svg_files)

relay_ended ==
  \/ pc = "saved" /\ convert_branch(final_param["format"]) = "relay"
  \/ pc \in {"exited", "crashed"} /\ fatal \in {"pillow_missing", "relay_io"}

\* C5: once the try statement of a relay conversion has ended (saved, I/O
\* error or missing image library), the removal has run and the temporary
\* PNG does not exist.
C5_TempRemoved == relay_ended => (cleaned /\ tempf_path \notin files)

\* C5 witness: the image library is missing after the renderer wrote the
\* temporary PNG, and the PNG is gone when the process exits.
C5_Witness ==
  /\ pc = "exited"
  /\ fatal = "pillow_missing"
  /\ cleaned
  /\ tempf_path \notin files

PreconditionFailures ==
  {"src_dir", "out_dir", "rules_path", "rules_json", "no_inkscape", "no_svg",
   "bad_size", "bad_drawing_only"}

\* C6 as stated: a fatal precondition failure ends the process with a
\* non-zero status before any renderer command has run.
C6_FatalNonZero ==
  fatal \in PreconditionFailures =>
    /\ pc = "exited"
    /\ exit_status > 0
    /\ cmds = <<>>

supplied_built == svg_files # <<>>

\* C7 as stated: run from the command line, the supplied block has exactly
\* the fields whose flag was given, so without --drawing_only and without a
\* per-file value the _globalrule_ drawing_only is the resolved one.
C7_SuppliedOnlyGiven ==
  /\ (args # NoArgs /\ supplied_built) =>
       /\ "size" \in DOMAIN supplied_param <=> args.size # PyNone
       /\ "format" \in DOMAIN supplied_param <=> args.format # PyNone
       /\ "drawing_only" \in DOMAIN supplied_param <=> args.drawing_only # PyNone
  /\ (args # NoArgs /\ converting /\ args.drawing_only = PyNone
        /\ "drawing_only" \notin DOMAIN raw_local
        /\ "drawing_only" \in DOMAIN raw_global) =>
       final_param["drawing_only"] = raw_global["drawing_only"]

\* C8 as stated: after load, every block of the rules document keeps the
\* keys and values it was loaded with, and the supplied block stays what
\* the arguments made it.
C8_BlocksUntouched ==
  supplied_built =>
    /\ DOMAIN rule_data = DOMAIN loaded
    /\ \A k \in DOMAIN loaded : rule_data[k] = loaded[k]
    /\ supplied_param = supplied_of(call.file_format, call.size, call.drawing_only)

HasSizeFlags(cmd) == \E i, j \in DOMAIN cmd : cmd[i] = "-w" /\ cmd[j] = "-h"

\* C9 as stated: the command has -w and -h exactly when the resolved size
\* is present and the format is a relay format or the native format png
\* (as the classifier reads it, in any letter case).
C9_SizeFlags ==
  pc \in {"relay", "saved"} =>
    LET f == final_param["format"]
    IN HasSizeFlags(last_cmd) <=>
         /\ final_param["size"] # PyNone
         /\ convert_branch(f) = "relay" \/ lower(f) = py_png

\* C10 as stated: while a relay conversion uses the temporary PNG, no file
\* of the batch converted so far has that path as its output path.
C10_TempNotAnOutput ==
  pc = "relay" => \A i \in DOMAIN out_paths : out_paths[i] # tempf_path

Next ==
  \/ Main
  \/ DirectCall
  \/ SetupFails
  \/ Setup
  \/ Resolve
  \/ ConvertNative
  \/ ConvertRelayRender
  \/ ConvertRelayTranscode
  \/ ConvertUnsupported
  \/ ReportSaved
  \/ Done

Spec == Init /\ [][Next]_vars

terminated == pc \in {"done", "exited", "crashed"}
\* The lines printed before the loop (renderer found, number of files).
HeaderLines == 2
\* How many "Saved" lines have been printed.
saved_count == Len(report) - HeaderLines - (IF pc = "done" THEN 1 ELSE 0)
saved_line(i) == report[HeaderLines + i]

\* C11: in a batch without a conversion error the files are handled one at
\* a time in listing order: the i-th resolution and the i-th renderer
\* command are those of the i-th stem of the listing, each stem is resolved
\* and converted once, the i-th "Saved" line is printed after the i-th
\* command has returned and before the next conversion is started, "Done"
\* is printed only after every file has been saved, and then the process
\* has ended with nothing left to do (while before that it can always go
\* on).
C11_Sequential ==
  /\ (supplied_built /\ fatal = "none") =>
       /\ Len(out_paths) = (IF converting THEN idx ELSE idx - 1)
       /\ Len(out_paths) <= Len(svg_files)
       /\ Len(cmds) = (IF pc = "convert" THEN idx - 1 ELSE Len(out_paths))
       /\ \A i \in DOMAIN cmds : cmds[i][3] = src_svg_path_of(svg_files[i])
       /\ saved_count = (IF converting THEN idx - 1 ELSE Len(cmds))
       /\ \A i \in 1..saved_count :
            \E fmt \in {py_png, py_PNG, py_pdf, py_bmp, py_jpg} :
              /\ saved_line(i) = "Saved " \o svg_files[i] \o "." \o Join(fmt)
              /\ out_paths[i] = call.out_dir \o os_sep \o svg_files[i] \o "." \o Join(fmt)
       /\ (\E i \in DOMAIN report : report[i] = "Done") <=> pc = "done"
       /\ pc = "done" =>
            /\ saved_count = Len(svg_files)
            /\ report[Len(report)] = "Done"
            /\ exit_status = 0
  /\ terminated => ~ENABLED Next
  /\ ~terminated => ENABLED Next

\* C11 witness: a batch of two files has ended with both "Saved" lines and
\* then "Done".
C11_Witness ==
  /\ pc = "done"
  /\ fatal = "none"
  /\ Len(svg_files) = 2
  /\ Len(cmds) = 2
  /\ saved_count = 2
  /\ report[Len(report)] = "Done"
====
